---------------------------- MODULE Spec2Model ----------------------------
(***************************************************************************)
(* A model of the GitHub talent sourcer: GitHubClient (parseRepo,          *)
(* fetchContributors and its three passes, fetchUserProfile,               *)
(* matchesLocation), CSVExporter (mergeContributors, exportToCSV) and the  *)
(* repository loop of main.                                                *)
(*                                                                         *)
(* Strings the code takes apart (repository references, locations) are     *)
(* sequences of one-character strings; strings the code only compares      *)
(* (usernames, titles) are TLA+ strings.  Dates are integers, a later date *)
(* being a larger integer.                                                 *)
(***************************************************************************)
EXTENDS Integers, Sequences, FiniteSets, TLC

(***************************************************************************)
(* Bounds of the model.                                                    *)
(***************************************************************************)
\* longest owner/name part of an enumerated repository reference
MaxInputLen == 4
\* most repository references on the command line of a run
MaxRepos == 2
\* most entries on one page of the data source
MaxPageLen == 2
\* most entries the data source serves in a run over several repositories
MaxEntries == 3
\* most entries the data source serves in a run over one repository
MaxRepoEntries == 7
\* most mergeContributors calls of a merge sequence
MaxMerges == 3
\* entries the data source serves in a run with a recency cutoff
MaxCutoffEntries == 5

(***************************************************************************)
(* String helpers: what the JavaScript string methods used by the code do. *)
(***************************************************************************)
\* s.slice(i - 1, j): the characters i..j of s (1-based, inclusive)
Slice(s, i, j) == [k \in 1..(j - i + 1) |-> s[i + k - 1]]

\* whether sub occurs in s at position i
OccursAt(s, sub, i) ==
  /\ i >= 1
  /\ i + Len(sub) - 1 <= Len(s)
  /\ \A k \in 1..Len(sub) : s[i + k - 1] = sub[k]

\* String.prototype.includes
Includes(s, sub) == \E i \in 1..(Len(s) + 1) : OccursAt(s, sub, i)

\* String.prototype.indexOf, 1-based; 0 when sub does not occur
IndexOf(s, sub) ==
  IF Includes(s, sub)
  THEN CHOOSE i \in 1..(Len(s) + 1) :
         /\ OccursAt(s, sub, i)
         /\ \A j \in 1..(i - 1) : ~OccursAt(s, sub, j)
  ELSE 0

\* String.prototype.replace(sub, by) with a string pattern: the first
\* occurrence only
ReplaceFirst(s, sub, by) ==
  LET i == IndexOf(s, sub)
  IN  IF i = 0 THEN s
      ELSE Slice(s, 1, i - 1) \o by \o Slice(s, i + Len(sub), Len(s))

\* String.prototype.split(sep) for a one-character separator: the pieces
\* between separators, empty pieces included
RECURSIVE Split(_, _)
Split(s, sep) ==
  LET i == IndexOf(s, <<sep>>)
  IN  IF i = 0 THEN <<s>>
      ELSE <<Slice(s, 1, i - 1)>> \o Split(Slice(s, i + 1, Len(s)), sep)

UpperChars == <<"A","B","C","D","E","F","G","H","I","J","K","L","M",
                "N","O","P","Q","R","S","T","U","V","W","X","Y","Z">>
LowerChars == <<"a","b","c","d","e","f","g","h","i","j","k","l","m",
                "n","o","p","q","r","s","t","u","v","w","x","y","z">>

\* String.prototype.toLowerCase
ToLowerCase(s) ==
  [k \in 1..Len(s) |->
     IF \E n \in 1..26 : UpperChars[n] = s[k]
     THEN LowerChars[CHOOSE n \in 1..26 : UpperChars[n] = s[k]]
     ELSE s[k]]

(***************************************************************************)
(* GitHubClient.parseRepo                                                  *)
(***************************************************************************)
GitHubCom == <<"g","i","t","h","u","b",".","c","o","m">>
DotGit == <<".","g","i","t">>
Slash == "/"

\* the length of the longest run of non-"/" characters of s starting at i
RECURSIVE RunLen(_, _)
RunLen(s, i) ==
  IF i > Len(s) \/ s[i] = Slash THEN 0 ELSE 1 + RunLen(s, i + 1)

\* whether /github\.com\/([^\/]+)\/([^\/]+)/ matches s starting at i
UrlMatchesAt(s, i) ==
  LET a == i + Len(GitHubCom) + 1
      n1 == RunLen(s, a)
  IN  /\ OccursAt(s, GitHubCom \o <<Slash>>, i)
      /\ n1 >= 1
      /\ a + n1 <= Len(s)
      /\ s[a + n1] = Slash
      /\ RunLen(s, a + n1 + 1) >= 1

\* repoInput.match(/github\.com\/([^\/]+)\/([^\/]+)/): the leftmost match
\* and its two greedy groups; matched FALSE stands for null
UrlMatch(s) ==
  IF \E i \in 1..Len(s) : UrlMatchesAt(s, i)
  THEN LET i == CHOOSE j \in 1..Len(s) :
                  /\ UrlMatchesAt(s, j)
                  /\ \A k \in 1..(j - 1) : ~UrlMatchesAt(s, k)
           a == i + Len(GitHubCom) + 1
           n1 == RunLen(s, a)
           b == a + n1 + 1
       IN  [matched |-> TRUE,
            g1 |-> Slice(s, a, a + n1 - 1),
            g2 |-> Slice(s, b, b + RunLen(s, b) - 1)]
  ELSE [matched |-> FALSE, g1 |-> <<>>, g2 |-> <<>>]

\* the thrown Error of parseRepo
InvalidRepo == [ok |-> FALSE, owner |-> <<>>, repo |-> <<>>, fullName |-> <<>>]

\* parseRepo, the owner/repo branch
parseShorthand(repoInput) ==
  LET parts == Split(repoInput, Slash)
  IN  IF Len(parts) # 2
      THEN InvalidRepo
      ELSE [ok |-> TRUE, owner |-> parts[1], repo |-> parts[2],
            fullName |-> repoInput]

\* parseRepo, the full-URL branch
parseUrl(repoInput) ==
  LET m == UrlMatch(repoInput)
  IN  IF ~m.matched
      THEN InvalidRepo
      ELSE [ok |-> TRUE, owner |-> m.g1,
            repo |-> ReplaceFirst(m.g2, DotGit, <<>>),
            fullName |-> m.g1 \o <<Slash>> \o ReplaceFirst(m.g2, DotGit, <<>>)]

parseRepo(repoInput) ==
  IF Includes(repoInput, GitHubCom)
  THEN parseUrl(repoInput)
  ELSE parseShorthand(repoInput)

(***************************************************************************)
(* ContributorData and the Map<string, ContributorData> of one repository. *)
(* A Map iterates in insertion order, so it is a sequence of records with  *)
(* pairwise different usernames.  The profile fields other than location   *)
(* (name, email, bio, company, twitter, blog, profileUrl) are copied from  *)
(* the profile and never read again, and fetchedAt is the wall clock: they *)
(* are left out.                                                           *)
(***************************************************************************)
\* null, for a Date | null field; dates are 1, 2, ...
Null == 0
\* null, for the string | null location
NullStr == <<"null">>
\* the notableContributions cap of the three passes and of mergeContributors
NotableCap == 5
\* the page limit of the pull-request and issue passes
PageLimit == 3
\* exportToCSV writes the first 3 notable contributions
ExportNotable == 3

Has(m, username) == \E k \in 1..Len(m) : m[k].username = username
Pos(m, username) == CHOOSE k \in 1..Len(m) : m[k].username = username
Get(m, username) == m[Pos(m, username)]
\* Map.prototype.set: an existing key keeps its place
MapSet(m, r) ==
  IF Has(m, r.username)
  THEN [m EXCEPT ![Pos(m, r.username)] = r]
  ELSE Append(m, r)
Usernames(m) == {m[k].username : k \in 1..Len(m)}

(***************************************************************************)
(* GitHubClient.fetchUserProfile and matchesLocation                       *)
(***************************************************************************)
\* resp is what users.getByUsername answers: ok FALSE is a thrown error,
\* answered by the placeholder profile
fetchUserProfile(resp) ==
  IF resp.ok THEN [location |-> resp.location] ELSE [location |-> NullStr]

matchesLocation(location, filters) ==
  LET locationLower == ToLowerCase(location)
  IN  \E k \in 1..Len(filters) : Includes(locationLower, ToLowerCase(filters[k]))

\* !profile.location: null and the empty string are falsy
NoLocation(location) == location = NullStr \/ location = <<>>

\* the mutant: a profile without location passes the filter
PassesLocationFilterNoNullCheck(profile, options) ==
  \/ Len(options.locationFilter) = 0
  \/ NoLocation(profile.location)
  \/ matchesLocation(profile.location, options.locationFilter)

\* the "Apply location filter" block of the three passes, negated: whether
\* the pass goes on to create the record
PassesLocationFilter(profile, options) ==
  \/ Len(options.locationFilter) = 0
  \/ /\ ~NoLocation(profile.location)
     /\ matchesLocation(profile.location, options.locationFilter)

(***************************************************************************)
(* One iteration of the for loop of each pass, for an entry that reached   *)
(* the contributors.has(username) test.  profile is the answer of          *)
(* fetchUserProfile, read only when the username has no record yet.        *)
(***************************************************************************)
Min2(a, b) == IF a < b THEN a ELSE b
Max2(a, b) == IF a > b THEN a ELSE b

\* fetchCommitters, the body of the loop after the type and login tests
committerEntry(contributors, entry, profile, options, fullName) ==
  IF ~Has(contributors, entry.login)
  THEN IF ~PassesLocationFilter(profile, options)
       THEN contributors
       ELSE MapSet(contributors,
              [username |-> entry.login, location |-> profile.location,
               totalContributions |-> entry.contributions,
               pullRequests |-> 0, issues |-> 0,
               commits |-> entry.contributions,
               notableContributions |-> <<>>,
               firstContribution |-> Null, lastContribution |-> Null,
               repoName |-> fullName])
  ELSE LET existing == Get(contributors, entry.login)
       IN  MapSet(contributors,
             [existing EXCEPT !.commits = @ + entry.contributions,
                              !.totalContributions = @ + entry.contributions])

\* the mutant: the dates are compared without the test for null
UpdateDatesNoNullTest(existing, date) ==
  [existing EXCEPT
     !.firstContribution = IF date < @ THEN date ELSE @,
     !.lastContribution = IF date > @ THEN date ELSE @]

\* the date update of the update branch of the pull-request and issue passes
UpdateDates(existing, date) ==
  [existing EXCEPT
     !.firstContribution =
        IF @ = Null \/ date < @ THEN date ELSE @,
     !.lastContribution =
        IF @ = Null \/ date > @ THEN date ELSE @]

\* the mutant: titles are pushed without the length test
PushNotableUncapped(notable, title) == Append(notable, title)

\* if (existing.notableContributions.length < 5) push(title)
PushNotable(notable, title) ==
  IF Len(notable) < NotableCap THEN Append(notable, title) ELSE notable

\* fetchPRAuthors, the body of the loop after the cutoff and login tests
prEntry(contributors, pr, profile, options, fullName) ==
  IF ~Has(contributors, pr.login)
  THEN IF ~PassesLocationFilter(profile, options)
       THEN contributors
       ELSE MapSet(contributors,
              [username |-> pr.login, location |-> profile.location,
               totalContributions |-> 1,
               pullRequests |-> 1, issues |-> 0, commits |-> 0,
               notableContributions |-> <<pr.title>>,
               firstContribution |-> pr.created_at,
               lastContribution |-> pr.created_at,
               repoName |-> fullName])
  ELSE LET existing == Get(contributors, pr.login)
       IN  MapSet(contributors,
             UpdateDates(
               [existing EXCEPT
                  !.pullRequests = @ + 1,
                  !.totalContributions = @ + 1,
                  !.notableContributions = PushNotable(@, pr.title)],
               pr.created_at))

\* fetchIssueCreators, the body of the loop after the pull_request, cutoff
\* and login tests
issueEntry(contributors, issue, profile, options, fullName) ==
  IF ~Has(contributors, issue.login)
  THEN IF ~PassesLocationFilter(profile, options)
       THEN contributors
       ELSE MapSet(contributors,
              [username |-> issue.login, location |-> profile.location,
               totalContributions |-> 1,
               pullRequests |-> 0, issues |-> 1, commits |-> 0,
               notableContributions |-> <<issue.title>>,
               firstContribution |-> issue.created_at,
               lastContribution |-> issue.created_at,
               repoName |-> fullName])
  ELSE LET existing == Get(contributors, issue.login)
       IN  MapSet(contributors,
             UpdateDates(
               [existing EXCEPT
                  !.issues = @ + 1,
                  !.totalContributions = @ + 1,
                  !.notableContributions = PushNotable(@, issue.title)],
               issue.created_at))

(***************************************************************************)
(* CSVExporter.mergeContributors                                           *)
(***************************************************************************)
\* Array.from(new Set(xs)): the first occurrence of each element, in order
RECURSIVE Dedupe(_)
Dedupe(xs) ==
  IF xs = <<>> THEN <<>>
  ELSE LET front == Dedupe(SubSeq(xs, 1, Len(xs) - 1))
           last == xs[Len(xs)]
       IN  IF \E k \in 1..Len(front) : front[k] = last
           THEN front
           ELSE Append(front, last)

\* xs.slice(0, n)
Take(xs, n) == SubSeq(xs, 1, Min2(n, Len(xs)))

\* the mutant: the union is capped but not deduplicated
MergeNotableNoDedupe(existing, new) == Take(existing \o new, NotableCap)

\* Array.from(new Set([...existing, ...new])).slice(0, 5)
MergeNotable(existing, new) == Take(Dedupe(existing \o new), NotableCap)

CommaSpace == <<",", " ">>

\* if (!existing.repoName.includes(contributor.repoName)) existing.repoName += ...
MergeRepoName(existingRepoName, repoName) ==
  IF ~Includes(existingRepoName, repoName)
  THEN existingRepoName \o CommaSpace \o repoName
  ELSE existingRepoName

\* the mutant: the counters are added, the total is overwritten
MergeRecordTotalOverwritten(existing, contributor) ==
  [existing EXCEPT
     !.totalContributions = contributor.totalContributions,
     !.commits = @ + contributor.commits,
     !.pullRequests = @ + contributor.pullRequests,
     !.issues = @ + contributor.issues,
     !.notableContributions =
        MergeNotable(@, contributor.notableContributions),
     !.repoName = MergeRepoName(@, contributor.repoName)]

\* the else branch of mergeContributors: existing after the merge
MergeRecord(existing, contributor) ==
  [existing EXCEPT
     !.totalContributions = @ + contributor.totalContributions,
     !.commits = @ + contributor.commits,
     !.pullRequests = @ + contributor.pullRequests,
     !.issues = @ + contributor.issues,
     !.notableContributions =
        MergeNotable(@, contributor.notableContributions),
     !.firstContribution =
        IF /\ contributor.firstContribution # Null
           /\ (@ = Null \/ contributor.firstContribution < @)
        THEN contributor.firstContribution ELSE @,
     !.lastContribution =
        IF /\ contributor.lastContribution # Null
           /\ (@ = Null \/ contributor.lastContribution > @)
        THEN contributor.lastContribution ELSE @,
     !.repoName = MergeRepoName(@, contributor.repoName)]

\* the first loop: merged.set(contributor.username, contributor)
RECURSIVE AddExisting(_, _)
AddExisting(merged, existingContributors) ==
  IF existingContributors = <<>> THEN merged
  ELSE AddExisting(MapSet(merged, Head(existingContributors)),
                   Tail(existingContributors))

\* the mutant: a new contributor is always appended
RECURSIVE MergeNewAlwaysAppend(_, _)
MergeNewAlwaysAppend(merged, newContributors) ==
  IF newContributors = <<>> THEN merged
  ELSE MergeNewAlwaysAppend(Append(merged, Head(newContributors)),
                            Tail(newContributors))

\* the second loop: merge or add the new contributors
RECURSIVE MergeNew(_, _)
MergeNew(merged, newContributors) ==
  IF newContributors = <<>> THEN merged
  ELSE LET contributor == Head(newContributors)
       IN  MergeNew(
             IF ~Has(merged, contributor.username)
             THEN MapSet(merged, contributor)
             ELSE MapSet(merged,
                    MergeRecord(Get(merged, contributor.username), contributor)),
             Tail(newContributors))

mergeContributors(existingContributors, newContributors) ==
  MergeNew(AddExisting(<<>>, existingContributors), newContributors)

(***************************************************************************)
(* main: the filter, the sort, and CSVExporter.exportToCSV                 *)
(***************************************************************************)
\* xs.filter(c => keep(c)) for the minimum-contributions test of main
RECURSIVE FilterAtLeast(_, _)
FilterAtLeast(xs, threshold) ==
  IF xs = <<>> THEN <<>>
  ELSE IF Head(xs).totalContributions >= threshold
       THEN <<Head(xs)>> \o FilterAtLeast(Tail(xs), threshold)
       ELSE FilterAtLeast(Tail(xs), threshold)

\* contributors.filter(c => c.totalContributions >= (options.minContributions || 1))
FilterByMinContributions(contributors, options) ==
  FilterAtLeast(contributors,
                IF options.minContributions = 0 THEN 1
                ELSE options.minContributions)

\* the mutant: an equal total also moves ahead
ComesBeforeOrTies(b, a) == b.totalContributions - a.totalContributions >= 0

\* whether comparator (a, b) => b.totalContributions - a.totalContributions
\* puts b before a
ComesBefore(b, a) == b.totalContributions - a.totalContributions > 0

\* r inserted into the sorted xs behind every element it does not come before
RECURSIVE InsertSorted(_, _)
InsertSorted(xs, r) ==
  IF xs = <<>> THEN <<r>>
  ELSE LET last == xs[Len(xs)]
       IN  IF ComesBefore(r, last)
           THEN Append(InsertSorted(SubSeq(xs, 1, Len(xs) - 1), r), last)
           ELSE Append(xs, r)

\* allContributors.sort(comparator): Array.prototype.sort is stable
RECURSIVE SortByTotal(_)
SortByTotal(xs) ==
  IF xs = <<>> THEN <<>>
  ELSE InsertSorted(SortByTotal(SubSeq(xs, 1, Len(xs) - 1)), xs[Len(xs)])

\* the records exportToCSV hands to the writer, one row each: the first 3
\* notable contributions (joined with " | "), the dates as YYYY-MM-DD or ''
ExportRecords(contributors) ==
  [k \in 1..Len(contributors) |->
     [contributors[k] EXCEPT
        !.notableContributions = Take(@, ExportNotable)]]

(***************************************************************************)
(* The inputs: what the command line, the environment and the data source  *)
(* can hold.                                                               *)
(***************************************************************************)
Users == {"alice", "bob"}
NoLogin == "none"

RepoAB == <<"o", "/", "a", "b">>
RepoA == <<"o", "/", "a">>
RepoC == <<"p", "/", "c">>
NotARepo == <<"x">>
\* process.argv.slice(2) is drawn from these
RepoInputs == {RepoAB, RepoA, NotARepo}

LocBlr == <<"X", "B", "l", "r">>
LocBer == <<"B", "e", "r">>
\* LOCATION_FILTER, split and trimmed
FilterBlr == << <<"b", "L", "r">> >>

RECURSIVE SeqsUpTo(_, _)
SeqsUpTo(S, n) ==
  IF n = 0 THEN {<<>>}
  ELSE LET shorter == SeqsUpTo(S, n - 1)
       IN  shorter \cup {Append(q, x) : q \in shorter, x \in S}

\* users.getByUsername answers a profile with this location
Found(location) == [ok |-> TRUE, location |-> location]
\* users.getByUsername throws
LookupFailed == [ok |-> FALSE, location |-> NullStr]

(***************************************************************************)
(* The state                                                               *)
(***************************************************************************)
VARIABLES
  pc,               \* where main stands
  repos,            \* process.argv.slice(2)
  repoIdx,          \* how many repository references the loop has taken
  repoConfig,       \* what parseRepo returned for the current reference
  options,          \* FetchOptions, with cutoffDate for activeWithinMonths
  contributors,     \* the Map of the current fetchContributors call
  allContributors,  \* main's accumulated array
  exported,         \* the rows handed to the CSV writer
  page,             \* the page counter of the current pass
  hasMore,          \* the hasMore flag of the current pass
  idx,              \* entries of the current page the for loop has taken
  source,           \* the data source: the entries of repos.listContributors
                    \* (stats), pulls.list (pulls), issues.listForRepo
                    \* (issues) and the answers of users.getByUsername
                    \* (profiles) it can serve, and how many entries it can
                    \* still serve in this run (left)
  pageReqs,         \* history: list requests issued by the current pass
  lookups,          \* history: profile lookups per username, this repository
  obs,              \* history: what the data source served, this repository
  grandTotal,       \* history: per username, the totals of all result sets
  mergedNames,      \* history: the usernames of all merged result sets
  repoLists,        \* history: per username, the repositories merged for it
  merges,           \* history: mergeContributors calls so far
  lastOp,           \* history: what the latest step was
  found,            \* prCount / issueCount of the current pass
  served,           \* history: the entries on the pages the current pass
                    \* fetched that have an author, are not older than the
                    \* cutoff and, among the issues, are no pull requests:
                    \* ahead of the first entry that ended the loop, and
                    \* behind it
  seen              \* history: what the current pass has met that ends a
                    \* pagination: an empty page, an entry older than the
                    \* cutoff, a pull request older than the cutoff among
                    \* the issues

vars == <<pc, repos, repoIdx, repoConfig, options, contributors,
          allContributors, exported, page, hasMore, idx, source, pageReqs,
          lookups, obs, grandTotal, mergedNames, repoLists, merges,
          lastOp, found, served, seen>>

passVars == <<found, served, seen>>
NoneServed == [ahead |-> 0, behind |-> 0]

NoObs ==
  [u \in Users |->
     [stats |-> <<>>, pullRequests |-> 0, issues |-> 0, titles |-> <<>>,
      first |-> Null, last |-> Null]]
\* no LOCATION_FILTER, no ACTIVE_WITHIN_MONTHS, MIN_CONTRIBUTIONS as given
Options(minContributions) ==
  [locationFilter |-> <<>>, minContributions |-> minContributions,
   cutoffDate |-> Null]

\* the state main starts the repository loop in
InitRun ==
  /\ repoIdx = 0
  /\ repoConfig = InvalidRepo
  /\ contributors = <<>>
  /\ allContributors = <<>>
  /\ exported = <<>>
  /\ page = 1
  /\ hasMore = TRUE
  /\ idx = 0
  /\ pageReqs = 0
  /\ lookups = [u \in Users |-> 0]
  /\ obs = NoObs
  /\ grandTotal = [u \in Users |-> 0]
  /\ mergedNames = {}
  /\ repoLists = [u \in Users |-> <<>>]
  /\ merges = 0
  /\ lastOp = "start"
  /\ found = 0
  /\ served = NoneServed
  /\ seen = {}

\* a run over up to MaxRepos repository references, each MIN_CONTRIBUTIONS,
\* no location filter and no recency cutoff
Init ==
  /\ InitRun
  /\ pc = "parse"
  /\ repos \in SeqsUpTo(RepoInputs, MaxRepos) \ {<<>>}
  /\ options \in {Options(m) : m \in {0, 1, 2}}
  /\ source =
       [stats |-> [type : {"User"}, login : Users, contributions : {2}],
        pulls |-> [login : Users, title : {"Fix bug"}, created_at : {1}],
        issues |-> [login : Users, title : {"Report bug"}, created_at : {1},
                    pull_request : {FALSE}],
        profiles |-> {Found(LocBlr)},
        left |-> MaxEntries]

(***************************************************************************)
(* History bookkeeping                                                     *)
(***************************************************************************)
\* xs with x appended unless it is there
AppendNew(xs, x) ==
  IF \E k \in 1..Len(xs) : xs[k] = x THEN xs ELSE Append(xs, x)

\* a pull request or issue the data source served for login
ObserveItem(o, kind, entry) ==
  IF entry.login = NoLogin THEN o
  ELSE [o EXCEPT ![entry.login] =
          [@ EXCEPT
             !.pullRequests = IF kind = "pr" THEN @ + 1 ELSE @,
             !.issues = IF kind = "issue" THEN @ + 1 ELSE @,
             !.titles = Append(@, entry.title),
             !.first = IF @ = Null THEN entry.created_at
                       ELSE Min2(@, entry.created_at),
             !.last = Max2(@, entry.created_at)]]

\* a commit-statistics entry the data source served for login
ObserveStat(o, entry) ==
  IF entry.login = NoLogin THEN o
  ELSE [o EXCEPT ![entry.login].stats =
          Append(@, [type |-> entry.type,
                     contributions |-> entry.contributions])]

\* the histories of a mergeContributors call: unfiltered is the result set
\* before main's filter, new the set handed to mergeContributors
MergeHistory(unfiltered, new) ==
  /\ grandTotal' =
       [u \in Users |->
          IF Has(unfiltered, u)
          THEN grandTotal[u] + Get(unfiltered, u).totalContributions
          ELSE grandTotal[u]]
  /\ mergedNames' = mergedNames \cup Usernames(new)
  /\ repoLists' =
       [u \in Users |->
          IF Has(new, u)
          THEN AppendNew(repoLists[u], Get(new, u).repoName)
          ELSE repoLists[u]]
  /\ merges' = merges + 1

\* created_at is not older than the cutoff
Fresh(entry) ==
  options.cutoffDate = Null \/ entry.created_at >= options.cutoffDate

\* the entries a page can hold behind the entry the loop stands at
RestOfPage(broke) == IF broke THEN 0..(MaxPageLen - idx - 1) ELSE {0}

\* the entry the loop read, and rest more entries with an author and a
\* creation date not older than the cutoff behind it on the page
Serve(counts, rest) ==
  [ahead |-> served.ahead + (IF counts THEN 1 ELSE 0),
   behind |-> served.behind + rest]

\* a pass starts: page = 1, hasMore = true
EnterPass ==
  /\ page' = 1
  /\ hasMore' = TRUE
  /\ idx' = 0
  /\ pageReqs' = 0
  /\ found' = 0
  /\ served' = NoneServed
  /\ seen' = {}

\* the profile answer is drawn only when the code looks a profile up
LookupNeeded(login) == login # NoLogin /\ ~Has(contributors, login)
ResponsesFor(login) ==
  IF LookupNeeded(login) THEN source.profiles ELSE {LookupFailed}
CountLookup(login) ==
  IF LookupNeeded(login)
  THEN [lookups EXCEPT ![login] = @ + 1]
  ELSE lookups

(***************************************************************************)
(* main: the repository loop                                               *)
(***************************************************************************)
\* for (const repoInput of repos): parseRepo, and on its Error the catch
\* block, which goes on with the next reference
ParseRepo ==
  /\ pc = "parse"
  /\ repoIdx < Len(repos)
  /\ repoIdx' = repoIdx + 1
  /\ repoConfig' = parseRepo(repos[repoIdx + 1])
  /\ pc' = IF repoConfig'.ok THEN "commits" ELSE "parse"
  /\ lastOp' = IF repoConfig'.ok THEN "step" ELSE "skip"
  /\ contributors' = <<>>
  /\ lookups' = [u \in Users |-> 0]
  /\ obs' = NoObs
  /\ EnterPass
  /\ UNCHANGED <<repos, options, allContributors, exported, source,
                 grandTotal, mergedNames, repoLists, merges>>

(***************************************************************************)
(* GitHubClient.fetchCommitters                                            *)
(***************************************************************************)
\* repos.listContributors answers, or throws into the catch of the pass
CommitsFetch ==
  /\ pc = "commits"
  /\ \E ok \in BOOLEAN :
       /\ pc' = IF ok THEN "commitLoop" ELSE "prs"
       /\ lastOp' = IF ok THEN "step" ELSE "fault"
       /\ pageReqs' = IF ok THEN 1 ELSE 0
  /\ page' = 1
  /\ hasMore' = TRUE
  /\ idx' = 0
  /\ found' = 0
  /\ served' = NoneServed
  /\ seen' = {}
  /\ UNCHANGED <<repos, repoIdx, repoConfig, options, contributors,
                 allContributors, exported, source, lookups, obs, grandTotal,
                 mergedNames, repoLists, merges>>

\* one iteration of for (const contributor of response.data)
CommitEntry ==
  /\ pc = "commitLoop"
  /\ idx < MaxPageLen
  /\ source.left > 0
  /\ \E entry \in source.stats :
       LET counted == entry.type = "User" /\ entry.login # NoLogin
           login == IF counted THEN entry.login ELSE NoLogin
       IN  \E resp \in ResponsesFor(login) :
             /\ contributors' =
                  IF counted
                  THEN committerEntry(contributors, entry,
                                      fetchUserProfile(resp), options,
                                      repoConfig.fullName)
                  ELSE contributors
             /\ lookups' = CountLookup(login)
             /\ obs' = ObserveStat(obs, entry)
  /\ idx' = idx + 1
  /\ source' = [source EXCEPT !.left = @ - 1]
  /\ lastOp' = "step"
  /\ UNCHANGED <<pc, repos, repoIdx, repoConfig, options, allContributors,
                 exported, page, hasMore, pageReqs, grandTotal, mergedNames,
                 repoLists, merges>>
  /\ UNCHANGED passVars

\* the loop over response.data ends
CommitsDone ==
  /\ pc = "commitLoop"
  /\ pc' = "prs"
  /\ EnterPass
  /\ lastOp' = "step"
  /\ UNCHANGED <<repos, repoIdx, repoConfig, options, contributors,
                 allContributors, exported, source, lookups, obs, grandTotal,
                 mergedNames, repoLists, merges>>

(***************************************************************************)
(* GitHubClient.fetchPRAuthors and fetchIssueCreators: the while loop      *)
(***************************************************************************)
PassAfter(p) == IF p = "prs" THEN "issues" ELSE "merge"
LoopOf(p) == IF p = "prs" THEN "prLoop" ELSE "issueLoop"

\* the mutant: the loop goes on while hasMore, whatever the page
MorePagesUncapped == hasMore

\* while (hasMore && page <= 3)
MorePages == hasMore /\ page <= PageLimit

\* the mutant: the thrown error leaves fetchContributors, so that main's
\* catch block goes on with the next reference and the repository's records
\* are never merged
PageFetchErrorEscapes ==
  /\ pc \in {"prs", "issues"}
  /\ MorePages
  /\ \E answer \in {"error", "empty", "page"} :
       /\ answer = "page" => source.left > 0
       /\ pc' = CASE answer = "error" -> "parse"
                  [] answer = "empty" -> pc
                  [] OTHER -> LoopOf(pc)
       /\ hasMore' = IF answer = "empty" THEN FALSE ELSE TRUE
       /\ page' = IF answer = "error" THEN 1 ELSE page
       /\ pageReqs' = IF answer = "error" THEN 0 ELSE pageReqs + 1
       /\ lastOp' = IF answer = "error" THEN "fault" ELSE "step"
       /\ found' = IF answer = "error" THEN 0 ELSE found
       /\ served' = IF answer = "error" THEN NoneServed ELSE served
       /\ seen' = CASE answer = "error" -> {}
                    [] answer = "empty" -> seen \cup {"empty"}
                    [] OTHER -> seen
  /\ idx' = 0
  /\ UNCHANGED <<repos, repoIdx, repoConfig, options, contributors,
                 allContributors, exported, source, lookups, obs, grandTotal,
                 mergedNames, repoLists, merges>>

\* pulls.list / issues.listForRepo answers a page, an empty page, or throws
\* into the catch of the pass
PageFetch ==
  /\ pc \in {"prs", "issues"}
  /\ MorePages
  /\ \E answer \in {"error", "empty", "page"} :
       /\ answer = "page" => source.left > 0
       /\ pc' = CASE answer = "error" -> PassAfter(pc)
                  [] answer = "empty" -> pc
                  [] OTHER -> LoopOf(pc)
       /\ hasMore' = IF answer = "empty" THEN FALSE ELSE TRUE
       /\ page' = IF answer = "error" THEN 1 ELSE page
       /\ pageReqs' = IF answer = "error" THEN 0 ELSE pageReqs + 1
       /\ lastOp' = IF answer = "error" THEN "fault" ELSE "step"
       /\ found' = IF answer = "error" THEN 0 ELSE found
       /\ served' = IF answer = "error" THEN NoneServed ELSE served
       /\ seen' = CASE answer = "error" -> {}
                    [] answer = "empty" -> seen \cup {"empty"}
                    [] OTHER -> seen
  /\ idx' = 0
  /\ UNCHANGED <<repos, repoIdx, repoConfig, options, contributors,
                 allContributors, exported, source, lookups, obs, grandTotal,
                 mergedNames, repoLists, merges>>

\* while (hasMore && page <= 3) is false: the pass returns
PassDone ==
  /\ pc \in {"prs", "issues"}
  /\ ~MorePages
  /\ pc' = PassAfter(pc)
  /\ EnterPass
  /\ lastOp' = "step"
  /\ UNCHANGED <<repos, repoIdx, repoConfig, options, contributors,
                 allContributors, exported, source, lookups, obs, grandTotal,
                 mergedNames, repoLists, merges>>

\* the for loop over the page ends: page++
PageEnd ==
  /\ pc \in {"prLoop", "issueLoop"}
  /\ idx >= 1
  /\ pc' = IF pc = "prLoop" THEN "prs" ELSE "issues"
  /\ page' = page + 1
  /\ idx' = 0
  /\ lastOp' = "step"
  /\ UNCHANGED <<repos, repoIdx, repoConfig, options, contributors,
                 allContributors, exported, hasMore, source, pageReqs, lookups,
                 obs, grandTotal, mergedNames, repoLists, merges>>
  /\ UNCHANGED passVars

\* the mutant: an entry created at the cutoff date counts as older
TooOldOrAtCutoff(entry) ==
  options.cutoffDate # Null /\ entry.created_at <= options.cutoffDate

\* cutoffDate && new Date(created_at) < cutoffDate
TooOld(entry) ==
  options.cutoffDate # Null /\ entry.created_at < options.cutoffDate

\* one iteration of for (const pr of response.data); on a pull request
\* older than the cutoff hasMore = false, break, and then page++
PullEntry ==
  /\ pc = "prLoop"
  /\ idx < MaxPageLen
  /\ source.left > 0
  /\ \E pr \in source.pulls :
       LET login == IF TooOld(pr) THEN NoLogin ELSE pr.login
       IN  \E resp \in ResponsesFor(login), rest \in RestOfPage(TooOld(pr)) :
             /\ found' = IF login = NoLogin THEN found ELSE found + 1
             /\ served' = Serve(Fresh(pr) /\ pr.login # NoLogin, rest)
             /\ seen' = IF Fresh(pr) THEN seen ELSE seen \cup {"old"}
             /\ contributors' =
                  IF login = NoLogin THEN contributors
                  ELSE prEntry(contributors, pr, fetchUserProfile(resp),
                               options, repoConfig.fullName)
             /\ lookups' = CountLookup(login)
             /\ obs' = ObserveItem(obs, "pr", pr)
             /\ hasMore' = ~TooOld(pr)
             /\ pc' = IF TooOld(pr) THEN "prs" ELSE pc
             /\ page' = IF TooOld(pr) THEN page + 1 ELSE page
             /\ idx' = IF TooOld(pr) THEN 0 ELSE idx + 1
  /\ source' = [source EXCEPT !.left = @ - 1]
  /\ lastOp' = "step"
  /\ UNCHANGED <<repos, repoIdx, repoConfig, options, allContributors,
                 exported, pageReqs, grandTotal, mergedNames, repoLists, merges>>

\* one iteration of for (const issue of response.data): a pull request is
\* skipped before the cutoff test
IssueEntry ==
  /\ pc = "issueLoop"
  /\ idx < MaxPageLen
  /\ source.left > 0
  /\ \E issue \in source.issues :
       LET old == ~issue.pull_request /\ TooOld(issue)
           login == IF issue.pull_request \/ old THEN NoLogin
                    ELSE issue.login
       IN  \E resp \in ResponsesFor(login), rest \in RestOfPage(old) :
             /\ found' = IF login = NoLogin THEN found ELSE found + 1
             /\ served' = Serve(/\ ~issue.pull_request
                                /\ Fresh(issue)
                                /\ issue.login # NoLogin, rest)
             /\ seen' = CASE Fresh(issue) -> seen
                          [] issue.pull_request ->
                               seen \cup {"oldPullRequest"}
                          [] OTHER -> seen \cup {"old"}
             /\ contributors' =
                  IF login = NoLogin THEN contributors
                  ELSE issueEntry(contributors, issue, fetchUserProfile(resp),
                                  options, repoConfig.fullName)
             /\ lookups' = CountLookup(login)
             /\ obs' = IF issue.pull_request THEN obs
                       ELSE ObserveItem(obs, "issue", issue)
             /\ hasMore' = ~old
             /\ pc' = IF old THEN "issues" ELSE pc
             /\ page' = IF old THEN page + 1 ELSE page
             /\ idx' = IF old THEN 0 ELSE idx + 1
  /\ source' = [source EXCEPT !.left = @ - 1]
  /\ lastOp' = "step"
  /\ UNCHANGED <<repos, repoIdx, repoConfig, options, allContributors,
                 exported, pageReqs, grandTotal, mergedNames, repoLists, merges>>

(***************************************************************************)
(* main: filter, merge, sort, export                                       *)
(***************************************************************************)
\* fetchContributors has returned Array.from(contributors.values()): the
\* minimum-contributions filter and mergeContributors
FilterAndMerge ==
  /\ pc = "merge"
  /\ LET filtered == FilterByMinContributions(contributors, options)
     IN  /\ allContributors' = mergeContributors(allContributors, filtered)
         /\ MergeHistory(contributors, filtered)
  /\ pc' = "parse"
  /\ lastOp' = "merge"
  /\ UNCHANGED <<repos, repoIdx, repoConfig, options, contributors, exported,
                 page, hasMore, idx, source, pageReqs, lookups, obs>>
  /\ UNCHANGED passVars

\* after the loop: allContributors.sort(...)
Sort ==
  /\ pc = "parse"
  /\ repoIdx = Len(repos)
  /\ allContributors' = SortByTotal(allContributors)
  /\ pc' = "export"
  /\ lastOp' = "step"
  /\ UNCHANGED <<repos, repoIdx, repoConfig, options, contributors, exported,
                 page, hasMore, idx, source, pageReqs, lookups, obs, grandTotal,
                 mergedNames, repoLists, merges>>
  /\ UNCHANGED passVars

\* exporter.exportToCSV(allContributors, outputPath)
Export ==
  /\ pc = "export"
  /\ exported' = ExportRecords(allContributors)
  /\ pc' = "done"
  /\ lastOp' = "step"
  /\ UNCHANGED <<repos, repoIdx, repoConfig, options, contributors,
                 allContributors, page, hasMore, idx, source, pageReqs, lookups,
                 obs, grandTotal, mergedNames, repoLists, merges>>
  /\ UNCHANGED passVars

Next ==
  \/ ParseRepo
  \/ CommitsFetch
  \/ CommitEntry
  \/ CommitsDone
  \/ PageFetch
  \/ PageEnd
  \/ PassDone
  \/ PullEntry
  \/ IssueEntry
  \/ FilterAndMerge
  \/ Sort
  \/ Export

\* a run of main over up to MaxRepos repository references
Spec == Init /\ [][Next]_vars

(***************************************************************************)
(* Runs over one repository                                                *)
(***************************************************************************)
\* a run over one or two repositories with and without a location filter,
\* the data source answering lookups with a matching, a non-matching, an
\* empty and a null location, or failing
InitFilter ==
  /\ InitRun
  /\ pc = "parse"
  /\ repos \in {<<RepoA>>, <<RepoA, RepoAB>>}
  /\ options \in {[Options(1) EXCEPT !.locationFilter = f] :
                    f \in {<<>>, FilterBlr}}
  /\ source =
       [stats |-> [type : {"User"}, login : Users, contributions : {2}],
        pulls |-> [login : Users, title : {"Fix bug"}, created_at : {1}],
        issues |-> [login : Users, title : {"Report bug"}, created_at : {1},
                    pull_request : {FALSE}],
        profiles |-> {Found(LocBlr), Found(LocBer), Found(<<>>),
                      Found(NullStr), LookupFailed},
        left |-> MaxEntries]

SpecFilter == InitFilter /\ [][Next]_vars

\* a run over one repository with no location filter and no recency cutoff:
\* commit statistics of users and bots, pull requests and issues with two
\* titles and two dates, entries without author, pull requests among the
\* issues
InitRepo ==
  /\ InitRun
  /\ pc = "parse"
  /\ repos = <<RepoA>>
  /\ options = Options(1)
  /\ source =
       [stats |-> [type : {"User", "Bot"}, login : {"alice"},
                   contributions : {2}]
                  \cup {[type |-> "User", login |-> "bob",
                         contributions |-> 1]},
        pulls |-> [login : {"alice"}, title : {"Fix bug", "Report bug"},
                   created_at : {1, 2}]
                  \cup [login : {"bob", NoLogin}, title : {"Fix bug"},
                        created_at : {1}],
        issues |-> [login : {"alice"}, title : {"Fix bug", "Report bug"},
                    created_at : {1, 2}, pull_request : {FALSE}]
                   \cup [login : {"alice"}, title : {"Fix bug"},
                         created_at : {1}, pull_request : {TRUE}],
        profiles |-> {Found(LocBlr)},
        left |-> MaxRepoEntries]

SpecRepo == InitRepo /\ [][Next]_vars

\* a run over two repositories with and without ACTIVE_WITHIN_MONTHS: pull
\* requests and issues created before, at and after the cutoff date, in any
\* order, entries without author, pull requests among the issues
InitCutoff ==
  /\ InitRun
  /\ pc = "parse"
  /\ repos = <<RepoA, RepoC>>
  /\ options \in {[Options(1) EXCEPT !.cutoffDate = c] : c \in {Null, 2}}
  /\ source =
       [stats |-> [type : {"User"}, login : {"alice"}, contributions : {2}],
        pulls |-> [login : {"alice", NoLogin}, title : {"Fix bug"},
                   created_at : {1, 2, 3}],
        issues |-> [login : {"alice"}, title : {"Report bug"},
                    created_at : {1, 3}, pull_request : BOOLEAN],
        profiles |-> {Found(LocBlr)},
        left |-> MaxCutoffEntries]

SpecCutoff == InitCutoff /\ [][Next]_vars

\* a run over one repository with and without ACTIVE_WITHIN_MONTHS
InitPaging ==
  /\ InitRun
  /\ pc = "parse"
  /\ repos = <<RepoA>>
  /\ options \in {[Options(1) EXCEPT !.cutoffDate = c] : c \in {Null, 2}}
  /\ source =
       [stats |-> [type : {"User"}, login : {"alice"}, contributions : {2}],
        pulls |-> [login : {"alice"}, title : {"Fix bug"},
                   created_at : {1, 3}],
        issues |-> [login : {"alice"}, title : {"Report bug"},
                    created_at : {1, 3}, pull_request : BOOLEAN],
        profiles |-> {Found(LocBlr)},
        left |-> MaxCutoffEntries]

\* main is one sequential flow of awaited calls, each of which returns or
\* throws, so a step that can be taken is taken
SpecPaging == InitPaging /\ [][Next]_vars /\ WF_vars(Next)

(***************************************************************************)
(* mergeContributors on its own: a sequence of calls over result sets, and *)
(* the merge of the accumulated set with a deep copy of itself.            *)
(***************************************************************************)
RepoNames == {RepoAB, RepoA, RepoC}

\* the events of one username in one repository, as the passes meet them
CommitEvent(n) ==
  [kind |-> "commit", title |-> "", created_at |-> Null, contributions |-> n]
PullEvent(title, date) ==
  [kind |-> "pr", title |-> title, created_at |-> date, contributions |-> 1]
IssueEvent(title, date) ==
  [kind |-> "issue", title |-> title, created_at |-> date, contributions |-> 1]

Histories ==
  {<<CommitEvent(2)>>,
   <<PullEvent("t1", 1)>>,
   <<PullEvent("t1", 2), PullEvent("t2", 2), IssueEvent("t1", 1)>>,
   <<CommitEvent(1), IssueEvent("t6", 1)>>,
   <<PullEvent("t1", 2), PullEvent("t2", 2), PullEvent("t3", 1),
     IssueEvent("t4", 1), IssueEvent("t5", 2), IssueEvent("t6", 2)>>}
BobHistory == <<PullEvent("t1", 1)>>

\* the Map of fetchContributors after the passes met the events of login
RECURSIVE FoldEvents(_, _, _, _)
FoldEvents(m, login, events, fullName) ==
  IF events = <<>> THEN m
  ELSE LET e == Head(events)
           entry == [login |-> login, title |-> e.title,
                     created_at |-> e.created_at,
                     contributions |-> e.contributions]
           profile == fetchUserProfile(Found(LocBlr))
       IN  FoldEvents(
             CASE e.kind = "commit" ->
                    committerEntry(m, entry, profile, Options(1), fullName)
               [] e.kind = "pr" ->
                    prEntry(m, entry, profile, Options(1), fullName)
               [] OTHER ->
                    issueEntry(m, entry, profile, Options(1), fullName),
             login, Tail(events), fullName)

\* the result sets handed to mergeContributors
ResultSets ==
  UNION {
    {FoldEvents(<<>>, "alice", h, r),
     FoldEvents(<<>>, "bob", BobHistory, r),
     FoldEvents(FoldEvents(<<>>, "alice", h, r), "bob", BobHistory, r),
     FoldEvents(FoldEvents(<<>>, "bob", BobHistory, r), "alice", h, r)}
    : h \in Histories, r \in RepoNames}

\* S with every record carrying the repository identifier repoName
DeepCopy(S, repoName) ==
  [k \in 1..Len(S) |-> [S[k] EXCEPT !.repoName = repoName]]

InitMerge ==
  /\ InitRun
  /\ pc = "merging"
  /\ repos = <<>>
  /\ options = Options(1)
  /\ source = [stats |-> {}, pulls |-> {}, issues |-> {}, profiles |-> {},
               left |-> 0]

\* allContributors = exporter.mergeContributors(allContributors, new)
MergeResultSet ==
  /\ pc = "merging"
  /\ merges < MaxMerges
  /\ \E new \in ResultSets :
       /\ allContributors' = mergeContributors(allContributors, new)
       /\ MergeHistory(new, new)
  /\ lastOp' = "merge"
  /\ UNCHANGED <<pc, repos, repoIdx, repoConfig, options, contributors,
                 exported, page, hasMore, idx, source, pageReqs, lookups,
                 obs>>
  /\ UNCHANGED passVars

\* the accumulated set merged with a deep copy of itself that carries
\* another repository identifier
MergeDeepCopy ==
  /\ pc = "merging"
  /\ merges < MaxMerges
  /\ allContributors # <<>>
  /\ \E r \in RepoNames :
       /\ \A k \in 1..Len(allContributors) : allContributors[k].repoName # r
       /\ allContributors' =
            mergeContributors(allContributors, DeepCopy(allContributors, r))
       /\ MergeHistory(DeepCopy(allContributors, r),
                       DeepCopy(allContributors, r))
  /\ lastOp' = "copy"
  /\ UNCHANGED <<pc, repos, repoIdx, repoConfig, options, contributors,
                 exported, page, hasMore, idx, source, pageReqs, lookups,
                 obs>>
  /\ UNCHANGED passVars

NextMerge ==
  \/ MergeResultSet
  \/ MergeDeepCopy

\* a sequence of up to MaxMerges mergeContributors calls
SpecMerge == InitMerge /\ [][NextMerge]_vars

(***************************************************************************)
(* parseRepo on its own                                                    *)
(***************************************************************************)
RefChars == {"a", "w", Slash}
\* owner/name shorthands, well-formed and not
Shorthands == SeqsUpTo(RefChars, MaxInputLen)
HttpsPrefix == <<"h", "t", "t", "p", "s", ":", Slash, Slash>>
\* the same with a hosting-URL prefix, with and without a trailing .git
Urls ==
  {prefix \o GitHubCom \o <<Slash>> \o ref \o suffix :
     prefix \in {<<>>, HttpsPrefix}, ref \in Shorthands,
     suffix \in {<<>>, DotGit}}

InitParse ==
  /\ InitRun
  /\ pc = "parseOnly"
  /\ repos \in {<<ref>> : ref \in Shorthands \cup Urls}
  /\ options = Options(1)
  /\ source = [stats |-> {}, pulls |-> {}, issues |-> {}, profiles |-> {},
               left |-> 0]

\* client.parseRepo(repoInput)
ParseOnly ==
  /\ pc = "parseOnly"
  /\ repoConfig' = parseRepo(repos[1])
  /\ pc' = "parsed"
  /\ UNCHANGED <<repos, repoIdx, options, contributors, allContributors,
                 exported, page, hasMore, idx, source, pageReqs, lookups, obs,
                 grandTotal, mergedNames, repoLists, merges, lastOp>>
  /\ UNCHANGED passVars

NextParse == ParseOnly

\* one parseRepo call on an enumerated reference
SpecParse == InitParse /\ [][NextParse]_vars

(***************************************************************************)
(* Properties of a run of main (Spec)                                      *)
(***************************************************************************)
TotalIsSum(r) ==
  r.totalContributions = r.commits + r.pullRequests + r.issues

\* C1: in every reachable state, every record of the per-repository map and
\* of the accumulated array has totalContributions = commits + pullRequests
\* + issues, after every event of the three passes and after every
\* mergeContributors call.
C1_TotalIsSum ==
  /\ \A k \in 1..Len(contributors) : TotalIsSum(contributors[k])
  /\ \A k \in 1..Len(allContributors) : TotalIsSum(allContributors[k])

\* a record merged from two result sets that has commits and pull requests
\* or issues
C1_Witness ==
  \E k \in 1..Len(allContributors) :
    /\ Includes(allContributors[k].repoName, CommaSpace)
    /\ allContributors[k].commits > 0
    /\ allContributors[k].pullRequests + allContributors[k].issues > 0

\* C2: the exported set holds exactly the usernames whose totalContributions
\* summed over all processed repositories is at least minimumContributions;
\* a threshold of 0 or 1 keeps every created record.  (Stated for runs whose
\* references are pairwise different, so that no repository counts twice.)
C2_ThresholdOnMergedTotals ==
  pc = "done" /\ (\A i, j \in 1..Len(repos) : i # j => repos[i] # repos[j]) =>
    Usernames(exported) =
      {u \in Users : grandTotal[u] >= 1
                     /\ grandTotal[u] >= options.minContributions}

\* whether after is before sorted by totalContributions descending, with
\* equal totals in the order they had in before
SortedStable(before, after) ==
  /\ Len(after) = Len(before)
  /\ \A k \in 1..Len(before) : \E j \in 1..Len(after) : after[j] = before[k]
  /\ \A i, j \in 1..Len(after) :
       i < j =>
         /\ after[i].totalContributions >= after[j].totalContributions
         /\ after[i].totalContributions = after[j].totalContributions
              => Pos(before, after[i].username) < Pos(before, after[j].username)

\* C5: the sequence handed to the exporter is ordered by totalContributions
\* descending, and records with equal totals keep the relative order they
\* had in the merged array before the sort; the exporter writes the rows in
\* that order.
C5_SortIsStableDescending ==
  /\ [][pc = "parse" /\ pc' = "export"
          => SortedStable(allContributors, allContributors')]_vars
  /\ [][pc = "export" /\ pc' = "done"
          => /\ Len(exported') = Len(allContributors)
             /\ \A k \in 1..Len(allContributors) :
                  exported'[k].username = allContributors[k].username]_vars

\* two records with equal totals were sorted and exported
C5_Witness ==
  /\ pc = "done"
  /\ Len(exported) = 2
  /\ exported[1].totalContributions = exported[2].totalContributions

\* the number of references of repos that parseRepo accepts
RECURSIVE ValidCount(_)
ValidCount(rs) ==
  IF rs = <<>> THEN 0
  ELSE (IF parseRepo(Head(rs)).ok THEN 1 ELSE 0) + ValidCount(Tail(rs))

\* C9: when a request of a pass fails, every record gathered so far is kept
\* unchanged and the next pass of the repository (after the issue pass: the
\* filter and merge) runs; every repository whose reference parses is
\* merged, whatever failed; and the run always goes on to the export.
C9_FailedPassKeepsRecords ==
  /\ [][lastOp' = "fault"
          => /\ contributors' = contributors
             /\ allContributors' = allContributors
             /\ pc' = CASE pc = "commits" -> "prs"
                        [] pc = "prs" -> "issues"
                        [] pc = "issues" -> "merge"
                        [] OTHER -> pc]_vars
  /\ [](pc = "done" => merges = ValidCount(repos))
  /\ [](pc # "done" => ENABLED Next)

\* the pull-request pass failed after it had gathered a record, and the
\* issue pass is about to run, with another repository still to come
C9_Witness ==
  /\ lastOp = "fault"
  /\ pc = "issues"
  /\ \E k \in 1..Len(contributors) : contributors[k].pullRequests > 0
  /\ repoIdx < Len(repos)

(***************************************************************************)
(* Properties of mergeContributors (SpecMerge)                             *)
(***************************************************************************)
NoDuplicates(xs) == \A i, j \in 1..Len(xs) : i # j => xs[i] # xs[j]

\* whether R is S with every counter doubled and a deduplicated, capped
\* sample
Doubled(S, R) ==
  /\ Len(R) = Len(S)
  /\ \A k \in 1..Len(S) :
       /\ R[k].username = S[k].username
       /\ R[k].commits = 2 * S[k].commits
       /\ R[k].pullRequests = 2 * S[k].pullRequests
       /\ R[k].issues = 2 * S[k].issues
       /\ R[k].totalContributions = 2 * S[k].totalContributions
       /\ NoDuplicates(R[k].notableContributions)
       /\ Len(R[k].notableContributions) <= 5

\* C3: merging a result set S with a deep copy of it that carries another
\* repository identifier doubles commits, pullRequests, issues and
\* totalContributions of every username and leaves notableContributions
\* without duplicates and with at most 5 entries.
C3_SelfMergeDoubles ==
  [][lastOp' = "copy" /\ merges' = merges + 1
       => Doubled(allContributors, allContributors')]_vars

\* a set with two usernames was merged with its copy; one sample held a
\* title twice before
C3_Witness ==
  /\ lastOp = "copy"
  /\ Len(allContributors) = 2
  /\ \E k \in 1..Len(allContributors) :
       /\ allContributors[k].pullRequests = 4
       /\ allContributors[k].issues = 2
       /\ Len(allContributors[k].notableContributions) = 2

\* C4: after any sequence of mergeContributors calls the accumulated set
\* holds one record per username, and its usernames are exactly those of
\* the merged result sets.
C4_OneRecordPerUsername ==
  /\ \A i, j \in 1..Len(allContributors) :
       i # j => allContributors[i].username # allContributors[j].username
  /\ Usernames(allContributors) = mergedNames

\* three merges, two usernames, one of them met in several result sets
C4_Witness ==
  /\ merges = 3
  /\ Len(allContributors) = 2
  /\ \E k \in 1..Len(allContributors) :
       Includes(allContributors[k].repoName, CommaSpace)

\* the repository identifiers joined with ", "
RECURSIVE JoinRepos(_)
JoinRepos(names) ==
  IF names = <<>> THEN <<>>
  ELSE IF Len(names) = 1 THEN names[1]
  ELSE JoinRepos(SubSeq(names, 1, Len(names) - 1))
         \o CommaSpace \o names[Len(names)]

\* C7: the repoName of every record lists every repository whose result set
\* contributed to the record, each once, in order of first appearance, also
\* a repository whose full name is a substring of a listed one.
C7_RepoListComplete ==
  \A k \in 1..Len(allContributors) :
    allContributors[k].repoName =
      JoinRepos(repoLists[allContributors[k].username])

(***************************************************************************)
(* Properties of parseRepo (SpecParse)                                     *)
(***************************************************************************)
SlashFree(s) == \A k \in 1..Len(s) : s[k] # Slash
\* whether ref is owner "/" name with a non-empty owner and name
IsOwnerName(ref, owner, name) ==
  /\ owner # <<>> /\ name # <<>>
  /\ SlashFree(owner) /\ SlashFree(name)
  /\ ref = owner \o <<Slash>> \o name
WellFormedRef(ref) ==
  \E k \in 1..Len(ref) :
    IsOwnerName(ref, SubSeq(ref, 1, k - 1), SubSeq(ref, k + 1, Len(ref)))

\* C10: parseRepo returns {owner, name, fullName = owner/name} for a hosting
\* URL, with or without a trailing .git, the same as for the owner/name
\* shorthand; a reference that is no URL is accepted exactly when it splits
\* on "/" into two non-empty segments, and every other one fails.
C10_ParseRepo ==
  pc = "parsed" =>
    LET ref == repos[1]
    IN  /\ ~Includes(ref, GitHubCom) =>
             /\ repoConfig.ok <=> WellFormedRef(ref)
             /\ repoConfig.ok =>
                  /\ IsOwnerName(ref, repoConfig.owner, repoConfig.repo)
                  /\ repoConfig.fullName = ref
        /\ \A short \in Shorthands, prefix \in {<<>>, HttpsPrefix},
              suffix \in {<<>>, DotGit} :
             /\ WellFormedRef(short)
             /\ ref = prefix \o GitHubCom \o <<Slash>> \o short \o suffix
             => /\ repoConfig.ok
                /\ IsOwnerName(short, repoConfig.owner, repoConfig.repo)
                /\ repoConfig.fullName = short

(***************************************************************************)
(* Properties of the location filter (SpecFilter)                          *)
(***************************************************************************)
SameLetter(a, b) ==
  a = b \/ \E n \in 1..26 : {a, b} = {UpperChars[n], LowerChars[n]}
ContainsIgnoringCase(location, term) ==
  \E i \in 1..(Len(location) + 1) :
    /\ i + Len(term) - 1 <= Len(location)
    /\ \A k \in 1..Len(term) : SameLetter(location[i + k - 1], term[k])
LocationAdmitted(r) ==
  /\ r.location # NullStr
  /\ \E k \in 1..Len(options.locationFilter) :
       ContainsIgnoringCase(r.location, options.locationFilter[k])

\* C8: with location terms configured, every record of the per-repository
\* map, of the accumulated array and of the export has a non-null location
\* that contains one of the terms, case ignored; a username whose lookups
\* answer no such location gets no record, however often it is met.
C8_LocationFilter ==
  Len(options.locationFilter) > 0 =>
    /\ \A k \in 1..Len(contributors) : LocationAdmitted(contributors[k])
    /\ \A k \in 1..Len(allContributors) : LocationAdmitted(allContributors[k])
    /\ \A k \in 1..Len(exported) : LocationAdmitted(exported[k])

\* alice was admitted, bob was looked up twice and has no record
C8_Witness ==
  /\ Len(options.locationFilter) > 0
  /\ Has(contributors, "alice")
  /\ lookups["bob"] >= 2
  /\ ~Has(contributors, "bob")

(***************************************************************************)
(* Properties of fetchContributors over one repository (SpecRepo)          *)
(***************************************************************************)
\* whether the Map holds exactly one record of username u, with what the
\* data source served for u: commits from the one commit-statistics entry,
\* pull requests and issues as counted, the dates of the earliest and the
\* latest of them, the first 5 titles
RecordMatches(u) ==
  /\ Cardinality({k \in 1..Len(contributors) : contributors[k].username = u})
       = 1
  /\ LET r == Get(contributors, u)
     IN  /\ r.commits = obs[u].stats[1].contributions
         /\ r.pullRequests = obs[u].pullRequests
         /\ r.issues = obs[u].issues
         /\ r.totalContributions =
              obs[u].stats[1].contributions + obs[u].pullRequests
                + obs[u].issues
         /\ r.firstContribution = obs[u].first
         /\ r.lastContribution = obs[u].last
         /\ r.notableContributions = Take(obs[u].titles, 5)

NoFilterNoCutoff ==
  Len(options.locationFilter) = 0 /\ options.cutoffDate = Null

\* C6 as claimed: with no location filter and no cutoff, a username with an
\* entry of count c in the commit statistics, p pull requests and i issues
\* on the fetched pages gets one record with commits = c, pullRequests = p,
\* issues = i, totalContributions = c + p + i, the earliest and latest
\* creation dates and the first min(5, p + i) titles.
C6_RecordOfOneRepository ==
  pc = "merge" /\ NoFilterNoCutoff =>
    \A u \in Users : Len(obs[u].stats) = 1 => RecordMatches(u)

\* C6 as amended: the same for a username whose commit-statistics entry is
\* of type User.
C6_RecordOfUserEntry ==
  pc = "merge" /\ NoFilterNoCutoff =>
    \A u \in Users :
      Len(obs[u].stats) = 1 /\ obs[u].stats[1].type = "User"
        => RecordMatches(u)

\* alice has a commit-statistics entry of type User and 6 pull requests and
\* issues, so that the sixth title was dropped
C6_Witness ==
  /\ pc = "merge"
  /\ NoFilterNoCutoff
  /\ Len(obs["alice"].stats) = 1
  /\ obs["alice"].stats[1].type = "User"
  /\ obs["alice"].pullRequests + obs["alice"].issues = 6
  /\ obs["alice"].first < obs["alice"].last

(***************************************************************************)
(* C13: during the processing of one repository, a profile lookup is       *)
(* issued at most once per username, whatever the number of events of the  *)
(* username and with or without a location filter.                         *)
(***************************************************************************)
C13_LookupOncePerUsername == \A u \in Users : lookups[u] <= 1

(***************************************************************************)
(* C11: with a recency cutoff, every pull request (and every issue that is *)
(* no pull request) that has an author, lies on a page the pass fetched    *)
(* and is not older than the cutoff yields a contribution event for its    *)
(* author, also when an entry older than the cutoff stands before it on    *)
(* its page and ends the loop.                                             *)
(***************************************************************************)
InPullPass == pc \in {"prs", "prLoop"}
InIssuePass == pc \in {"issues", "issueLoop"}

\* the events of the current pass that the records of the Map hold
EventsRecorded ==
  LET total(field) ==
        IF Has(contributors, "alice") THEN Get(contributors, "alice")[field]
        ELSE 0
  IN  IF InPullPass THEN total("pullRequests") ELSE total("issues")

\* n entries of the current pass were counted and are in the records
EventsYielded(n) ==
  (options.cutoffDate # Null /\ (InPullPass \/ InIssuePass))
    => found = n /\ EventsRecorded = n

\* C11 as claimed: the entries behind the one that ended the loop count too
C11_FreshEntriesYieldEvents == EventsYielded(served.ahead + served.behind)

\* C11 as amended: every such entry that no entry older than the cutoff
\* (among the issues: no such entry that is no pull request) precedes on its
\* page yields an event; the entries behind that one are not read
C11_FreshEntriesAheadYieldEvents == EventsYielded(served.ahead)

\* an entry older than the cutoff ended the loop of the pull-request pass
\* behind a counted entry and ahead of one that is not older
C11_Witness ==
  /\ options.cutoffDate # Null
  /\ pc = "prs"
  /\ "old" \in seen
  /\ served.ahead >= 1
  /\ served.behind >= 1
  /\ EventsRecorded = served.ahead

(***************************************************************************)
(* C12: a pull-request pass or issue pass issues at most 3 page requests,  *)
(* requests no further page once a fetched page was empty or an entry      *)
(* older than the cutoff was met, and always terminates.                   *)
(***************************************************************************)
\* this step issues pulls.list or issues.listForRepo
RequestIssued ==
  /\ pc \in {"prs", "issues"}
  /\ pageReqs' = pageReqs + 1 \/ lastOp' = "fault"

PassTerminates ==
  /\ InPullPass ~> ~InPullPass
  /\ InIssuePass ~> ~InIssuePass

\* C12 as claimed: any entry older than the cutoff ends the pagination
C12_PaginationStops ==
  /\ [][RequestIssued => pageReqs < PageLimit /\ seen = {}]_vars
  /\ PassTerminates

\* C12 as amended: among the issues, a pull request older than the cutoff
\* is skipped before the cutoff test and does not end the pagination
C12_PaginationStopsButForPullRequests ==
  /\ [][RequestIssued =>
          pageReqs < PageLimit /\ seen \subseteq {"oldPullRequest"}]_vars
  /\ PassTerminates

\* the issue pass has issued its third request after it met a pull request
\* older than the cutoff
C12_Witness ==
  /\ InIssuePass
  /\ options.cutoffDate # Null
  /\ pageReqs = PageLimit
  /\ "oldPullRequest" \in seen

(***************************************************************************)
(* C14: in every state, every record of the Map of the repository and of   *)
(* the accumulated array has firstContribution and lastContribution both   *)
(* null exactly when pullRequests + issues = 0, and otherwise both set     *)
(* with firstContribution <= lastContribution.                             *)
(***************************************************************************)
DatesConsistent(r) ==
  IF r.pullRequests + r.issues = 0
  THEN r.firstContribution = Null /\ r.lastContribution = Null
  ELSE /\ r.firstContribution # Null
       /\ r.lastContribution # Null
       /\ r.firstContribution <= r.lastContribution

C14_DatesConsistent ==
  /\ \A k \in 1..Len(contributors) : DatesConsistent(contributors[k])
  /\ \A k \in 1..Len(allContributors) : DatesConsistent(allContributors[k])

\* a record with commits only was merged with the record of the second
\* repository, which has a pull request and an issue of different dates on
\* top of its commits
C14_Witness ==
  /\ merges = 2
  /\ pc = "parse"
  /\ Has(contributors, "alice")
  /\ Has(allContributors, "alice")
  /\ LET new == Get(contributors, "alice")
         all == Get(allContributors, "alice")
     IN  /\ new.commits = 2
         /\ new.pullRequests = 1
         /\ new.issues = 1
         /\ new.firstContribution < new.lastContribution
         /\ all.commits = 4
         /\ all.pullRequests + all.issues = 2
         /\ all.firstContribution = new.firstContribution
         /\ all.lastContribution = new.lastContribution

=========================================================================
